---- MODULE Spec2Model ----
(***************************************************************************)
(* State-machine model of the orryin backend (FastAPI + SQLAlchemy):       *)
(* the relational tables, the request handlers of app/routers and the      *)
(* provider clients of app/integrations.                                   *)
(*                                                                         *)
(* A handler that awaits a provider, or that queries and later commits,    *)
(* is split at those points: each piece is one action and the request's    *)
(* locals live in a slot of `reqs` between the pieces.  Spec lets the      *)
(* pieces of different requests interleave (several workers on one         *)
(* database); SeqSpec (the KYC endpoints) and BrokSpec (onboarding and the *)
(* test flow) start a request only when no other is in flight; SigSpec     *)
(* applies the webhook signature verifier to every input.                  *)
(***************************************************************************)
EXTENDS Integers, Sequences, FiniteSets, TLC

VARIABLES
    settings,      \* app.config.settings, populated once at start-up
    users,         \* table users: sequence of rows, row id = index
    accounts,      \* table accounts
    transactions,  \* table transactions
    kyc,           \* table kyc_status
    brokerage,     \* table brokerage_accounts
    reqs,          \* requests in flight: slot -> the handler's position and locals
    resp,          \* the response most recently sent
    lastKyc,       \* per user id, of the last completed POST /kyc/applicant: its
                   \* code, whether it called the provider, the id it returned
    lastBrok,      \* the same of the last completed POST /brokerage/onboard
    sig,           \* verifier harness: the last call of the webhook verifier
    serial,        \* TRUE: requests are handled one at a time, and the two
                   \* histories are kept; FALSE: requests overlap
    userCap        \* the number of rows the users table may hold in this run

dbVars == <<users, accounts, transactions, kyc, brokerage>>
histVars == <<lastKyc, lastBrok>>
vars == <<settings, users, accounts, transactions, kyc, brokerage, reqs, resp,
          lastKyc, lastBrok, sig, serial, userCap>>

----------------------------------------------------------------------------
(* Bounds of the model *)

\* rows the users table may hold in the specifications of the KYC and
\* brokerage endpoints
MaxUsers == 1
\* requests that may be in flight at once
MaxInflight == 2
\* rows the users table may hold in the specifications of the user directory,
\* the test flow and the payments endpoints
MaxDirectory == 2
\* transfers after which no further sandbox transfer is started
MaxTx == 2

(* Python values *)

\* Python None / JSON null
Null == "<null>"
\* a key that a JSON object does not have
Absent == "<absent>"

\* bool(x) of an optional string
Truthy(x) == x # Null /\ x # Absent /\ x # ""

\* a or b
PyOr(a, b) == IF Truthy(a) THEN a ELSE b

\* str(x) inside an f-string
PyStr(x) == IF x = Null THEN "None" ELSE x

\* dict.get(key, default): the default only when the key is absent
DictGet(v, default) == IF v = Absent THEN default ELSE v

Slots == 1..MaxInflight
UserIds == 1..userCap

\* Query.first() over the rows whose indices are hits: the one of least id,
\* or NoRow
NoRow == [id |-> 0]
First(table, hits) ==
    IF hits = {} THEN NoRow
    ELSE table[CHOOSE i \in hits : \A j \in hits : i <= j]

----------------------------------------------------------------------------
(* app/config.py: the settings the handlers read *)

Settings(tok, sk, wk, wise, mock) ==
    [sumsub_app_token |-> tok, sumsub_secret_key |-> sk,
     sumsub_webhook_secret |-> wk, wise_api_key |-> wise,
     drivewealth_use_mock |-> mock]

\* the deployments explored: everything configured; the defaults of config.py
\* (no secret set, mock on); and two mixed ones with the mock off
SettingsChoices ==
    {Settings("tok", "sk", "wk", "wise", TRUE),
     Settings(Null, Null, Null, Null, TRUE),
     Settings("tok", "sk", Null, Null, FALSE),
     Settings(Null, Null, "wk", "wise", FALSE)}

\* every combination of the two secrets the webhook verifier reads
SecretChoices ==
    {Settings("tok", sk, wk, "wise", TRUE) :
        sk \in {Null, "", "sk"}, wk \in {Null, "", "wk"}}

----------------------------------------------------------------------------
(* app/integrations/sumsub_webhook.py *)

(* A header value is a sequence of symbols.  A symbol is one character,    *)
(* except that the 64 hex digits of a digest are two symbols (its halves): *)
(* a digest holds no "s", "h" or "=", so no occurrence of "sha256=" can    *)
(* begin or end inside one.                                                *)

Sha256Prefix == <<"s", "h", "a", "2", "5", "6", "=">>
Sha256PrefixUpper == <<"S", "H", "A", "2", "5", "6", "=">>

\* a character outside ASCII, as a latin-1 decoded header may hold
NonAscii == "\\xe9"

\* hmac.new(secret, raw_body, sha256).hexdigest(): distinct (secret, body)
\* give distinct digests
HexDigest(secret, raw_body) ==
    << "hi:" \o secret \o ":" \o raw_body, "lo:" \o secret \o ":" \o raw_body >>

\* str.replace(old, new) for a non-empty old: every non-overlapping
\* occurrence, scanning from the left
RECURSIVE StrReplace(_, _, _)
StrReplace(s, old, new) ==
    IF Len(s) < Len(old) THEN s
    ELSE IF SubSeq(s, 1, Len(old)) = old
         THEN new \o StrReplace(SubSeq(s, Len(old) + 1, Len(s)), old, new)
         ELSE <<Head(s)>> \o StrReplace(Tail(s), old, new)

\* hmac.compare_digest(a, b) on two str: TypeError unless both are ASCII
CompareDigest(a, b) ==
    IF \E i \in 1..Len(b) : b[i] = NonAscii THEN "TypeError"
    ELSE IF a = b THEN "True" ELSE "False"

\* request.headers.get("X-Signature") of a request without the header
NoHeader == <<Null>>

\* the secret the verifier signs with: webhook secret, else signing key, else ""
WebhookSecret == PyOr(settings.sumsub_webhook_secret, PyOr(settings.sumsub_secret_key, ""))

\* the header with the prefix removed, as the verifier removes it
StripSha256(header_signature) == StrReplace(header_signature, Sha256Prefix, <<>>)

\* verify_sumsub_webhook_signature: "True", "False", or the exception raised
verify_sumsub_webhook_signature(raw_body, header_signature) ==
    IF WebhookSecret = "" \/ header_signature = NoHeader \/ header_signature = <<>>
    THEN "False"
    ELSE CompareDigest(HexDigest(WebhookSecret, raw_body), StripSha256(header_signature))

----------------------------------------------------------------------------
(* The JSON bodies the webhook endpoint is sent *)

ApplicantIds == {"a1", "a2"}
\* an applicant id the provider never hands to this deployment
ForeignApplicantId == "a9"

WebhookBody(t, d, a, rr, rs, ra) ==
    [type |-> t, data |-> d, applicantId |-> a, reviewResult |-> rr,
     reviewStatus |-> rs, reviewAnswer |-> ra]

\* bodies without data, or without an applicant id in it
BodiesWithoutId ==
    {WebhookBody("applicantReviewed", d, Absent, Absent, Absent, Absent) : d \in {Absent, Null}}
    \cup {WebhookBody("applicantPending", "object", a, Absent, Absent, Absent) :
            a \in {Absent, Null}}

\* bodies about an applicant: a review with reviewResult absent, null, an
\* empty object, or an object with an answer; and an event that is no review
BodiesFor(a) ==
    {WebhookBody("applicantReviewed", "object", a, rr, Absent, Absent) :
        rr \in {Absent, Null, "object"}}
    \cup {WebhookBody("applicantReviewed", "object", a, "object", "completed", ra) :
            ra \in {"GREEN", "RED", "YELLOW"}}
    \cup {WebhookBody("applicantPending", "object", a, rr, Absent, Absent) :
            rr \in {Absent, Null}}

WebhookBodies ==
    BodiesWithoutId \cup UNION {BodiesFor(a) : a \in ApplicantIds \cup {ForeignApplicantId}}

\* the raw bytes of a body: its JSON text
RawBody(b) ==
    b.type \o "|" \o b.data \o "|" \o b.applicantId \o "|" \o b.reviewResult
        \o "|" \o b.reviewStatus \o "|" \o b.reviewAnswer

\* the X-Signature values tried against a body signed with key k
HeadersFor(raw, k) ==
    LET d == HexDigest(k, raw)
    IN  {NoHeader, <<>>, d, Sha256Prefix \o d, Sha256PrefixUpper \o d,
         <<d[1]>> \o Sha256Prefix \o <<d[2]>>, <<d[1]>>, d \o <<"0">>,
         <<NonAscii>>, Sha256Prefix \o <<NonAscii>> \o d}

\* the X-Signature values a webhook request is sent with
WebhookHeaders(raw) == {NoHeader, HexDigest("wk", raw), <<NonAscii>>}

SigningKeys == {"wk", "sk"}

----------------------------------------------------------------------------
(* Responses and request slots *)

NoBody == [none |-> Null]

\* send a response
Respond(op, user_id, code, detail, body) ==
    resp' = [op |-> op, user_id |-> user_id, code |-> code,
             detail |-> detail, body |-> body]

Idle ==
    [op |-> "idle", pc |-> "idle", user_id |-> 0, account_id |-> 0, row |-> 0,
     applicant_id |-> Null, out_status |-> Null,
     kyc_status |-> Null, kyc_error |-> Null, payments_error |-> Null,
     customer_id |-> Null, dw_account_id |-> Null, db_failed |-> FALSE,
     amount |-> 0]

AllIdle == \A s \in Slots : reqs[s].pc = "idle"

\* a new request takes the lowest free slot (slots have no identity)
Free(s) ==
    /\ reqs[s].pc = "idle"
    /\ \A t \in 1..(s - 1) : reqs[t].pc # "idle"
    /\ serial => AllIdle

Release(s) == reqs' = [reqs EXCEPT ![s] = Idle]

\* what lastKyc and lastBrok hold for a user no call has completed for
NoCall == [code |-> 0, made |-> FALSE, id |-> Null]

----------------------------------------------------------------------------
(* Tables *)

UserExists(user_id) == user_id \in 1..Len(users)

\* line 109 of routers/kyc.py, line 117 of routers/mvp.py
ExternalUserId(user_id) == "user-" \o ToString(user_id)

KycRow(id, user_id, applicant_id, status) ==
    [id |-> id, user_id |-> user_id, external_user_id |-> ExternalUserId(user_id),
     sumsub_applicant_id |-> applicant_id, status |-> status, review_result |-> Null]

\* db.query(KycStatus).filter(KycStatus.user_id == user_id).first()
KycByUser(table, user_id) ==
    First(table, {i \in 1..Len(table) : table[i].user_id = user_id})

\* db.query(KycStatus).filter(KycStatus.sumsub_applicant_id == applicant_id).first()
KycByApplicant(table, applicant_id) ==
    First(table, {i \in 1..Len(table) : table[i].sumsub_applicant_id = applicant_id})

\* a mutation of KycUnique: the columns declared without unique=True
KycUniqueDropped(table) == TRUE

\* models/kyc.py: user_id, external_user_id and sumsub_applicant_id are unique
\* (NULL applicant ids do not collide)
KycUnique(table) ==
    \A i, j \in 1..Len(table) :
        i # j =>
            /\ table[i].user_id # table[j].user_id
            /\ table[i].external_user_id # table[j].external_user_id
            /\ \/ table[i].sumsub_applicant_id = Null
               \/ table[i].sumsub_applicant_id # table[j].sumsub_applicant_id

\* the upsert of create_applicant and test_mvp_flow, as the commit writes it:
\* row = 0 inserts, otherwise the row found by the query is updated (all three
\* assigned columns are written, as they are when no other request commits
\* between the query and the commit)
KycUpsert(table, row, user_id, applicant_id, out_status) ==
    IF row = 0
    THEN Append(table, KycRow(Len(table) + 1, user_id, applicant_id, out_status))
    ELSE [table EXCEPT ![row] =
            [@ EXCEPT !.external_user_id = ExternalUserId(user_id),
                      !.sumsub_applicant_id = applicant_id,
                      !.status = out_status]]

----------------------------------------------------------------------------
(* app/integrations/sumsub_client.py and the 409 parser *)

\* SumsubClient.__init__ raises RuntimeError without both credentials
SumsubConfigured ==
    Truthy(settings.sumsub_app_token) /\ Truthy(settings.sumsub_secret_key)

\* the characters that are not [a-zA-Z0-9], as tokens of a description
Separators == {" ", ":", "'", "-", "!"}

\* 409 descriptions, as sequences of tokens: maximal alphanumeric runs and
\* single separator characters
Descriptions ==
    {<<>>, <<"!", "!">>}
    \cup {<<"Applicant", " ", "already", " ", "exists", ":", " ", a>> : a \in ApplicantIds}
    \cup {<<"conflict", " ", "for", " ", a, "!">> : a \in ApplicantIds}

\* re.findall(r"[a-zA-Z0-9]+", description)
Alnums(description) == SelectSeq(description, LAMBDA t : t \notin Separators)

\* re.search(r"already exists:\s*([a-zA-Z0-9]+)\s*$", description.strip()):
\* the index of group 1, or 0 without a match
AlreadyExistsMatch(description) ==
    LET ends == {i \in 5..Len(description) :
                    /\ description[i] \notin Separators
                    /\ \A j \in (i + 1)..Len(description) : description[j] = " "
                    /\ \E k \in 4..(i - 1) :
                          /\ description[k] = ":"
                          /\ description[k - 1] = "exists"
                          /\ description[k - 2] = " "
                          /\ description[k - 3] = "already"
                          /\ \A j \in (k + 1)..(i - 1) : description[j] = " "}
    IN  IF ends = {} THEN 0 ELSE CHOOSE i \in ends : TRUE

\* _extract_applicant_id_from_sumsub_409
ExtractApplicantId(description) ==
    IF description = <<>> THEN Null
    ELSE IF AlreadyExistsMatch(description) # 0
         THEN description[AlreadyExistsMatch(description)]
         ELSE IF Alnums(description) = <<>> THEN Null
              ELSE Alnums(description)[Len(Alnums(description))]

\* what the provider may answer to create_applicant
SumsubOutcomes ==
    {[kind |-> "ok", id |-> a, description |-> <<>>] : a \in ApplicantIds \cup {Null}}
    \cup {[kind |-> "409", id |-> Null, description |-> d] : d \in Descriptions}
    \cup {[kind |-> k, id |-> Null, description |-> <<>>] : k \in {"500", "transport"}}

\* lines 131-168 of create_applicant: what the try block leaves behind
\* (the HTTPException(500) of line 141 is caught by line 167 and becomes 502)
CreateResult(o) ==
    IF o.kind = "ok"
    THEN IF Truthy(o.id)
         THEN [code |-> 200, applicant_id |-> o.id, out_status |-> "created"]
         ELSE [code |-> 502, applicant_id |-> Null, out_status |-> "created"]
    ELSE IF o.kind = "409"
    THEN IF Truthy(ExtractApplicantId(o.description))
         THEN [code |-> 200, applicant_id |-> ExtractApplicantId(o.description),
               out_status |-> "already_exists"]
         ELSE [code |-> 502, applicant_id |-> Null, out_status |-> "created"]
    ELSE [code |-> 502, applicant_id |-> Null, out_status |-> "created"]

----------------------------------------------------------------------------
(* app/routers/users.py *)

Emails == {"ana@example.com", "bo@example.com"}

\* a mutation of UserByEmail: the look-up finds nothing
UserByEmailNone(email) == NoRow

UserByEmail(email) == First(users, {i \in 1..Len(users) : users[i].email = email})

\* users.email is unique
UsersUnique(table) ==
    \A i, j \in 1..Len(table) : i # j => table[i].email # table[j].email

\* POST /users/dev-create
create_dev_user(email) ==
    /\ IF UserByEmail(email) # NoRow
       THEN /\ Respond("dev_create", 0, 400, "Email already registered", NoBody)
            /\ UNCHANGED users
       ELSE /\ Len(users) < userCap
            /\ users' = Append(users, [id |-> Len(users) + 1, email |-> email])
            /\ Respond("dev_create", Len(users) + 1, 200, Null, NoBody)
    /\ UNCHANGED <<settings, serial, userCap, accounts, transactions, kyc, brokerage, reqs,
                   lastKyc, lastBrok, sig>>

----------------------------------------------------------------------------
(* app/routers/kyc.py: POST /kyc/applicant *)

KycBody(applicant_id, status, review_result) ==
    [applicant_id |-> applicant_id, status |-> status, review_result |-> review_result]

\* a mutation of HasStoredApplicant: the check of line 112 never succeeds
HasStoredApplicantNever(existing) == FALSE

\* line 112: existing and existing.sumsub_applicant_id
HasStoredApplicant(existing) ==
    existing # NoRow /\ Truthy(existing.sumsub_applicant_id)

\* a mutation of StoredResponse: the status the row was created with
StoredResponseStale(existing) ==
    KycBody(existing.sumsub_applicant_id, "already_exists", existing.review_result)

\* lines 113-117: the response built from the stored row
StoredResponse(existing) ==
    KycBody(existing.sumsub_applicant_id, PyOr(existing.status, "already_exists"),
            existing.review_result)

KycDone(s, user_id, code, made, detail, body) ==
    /\ Respond("kyc_applicant", user_id, code, detail, body)
    /\ lastKyc' = IF serial
                  THEN [lastKyc EXCEPT ![user_id] =
                          [code |-> code, made |-> made,
                           id |-> IF code = 200 THEN body.applicant_id ELSE Null]]
                  ELSE lastKyc
    /\ Release(s)

\* lines 105-135: the look-ups, the idempotent return, and the request sent
KycBegin(s, user_id) ==
    /\ Free(s)
    /\ LET existing == KycByUser(kyc, user_id)
       IN  IF ~UserExists(user_id)
           THEN KycDone(s, user_id, 404, FALSE, "User not found", NoBody)
           ELSE IF HasStoredApplicant(existing)
           THEN KycDone(s, user_id, 200, FALSE, Null, StoredResponse(existing))
           ELSE IF ~SumsubConfigured
           THEN KycDone(s, user_id, 500, FALSE, "RuntimeError", NoBody)
           ELSE /\ reqs' = [reqs EXCEPT ![s] =
                              [Idle EXCEPT !.op = "kyc_applicant", !.pc = "call",
                                           !.user_id = user_id]]
                /\ UNCHANGED <<resp, lastKyc>>
    /\ UNCHANGED <<settings, serial, userCap, dbVars, lastBrok, sig>>

\* lines 135-183: the provider's answer, then the query of the upsert
KycProviderReturn(s, o) ==
    /\ reqs[s].op = "kyc_applicant" /\ reqs[s].pc = "call"
    /\ LET r == CreateResult(o)
           existing == KycByUser(kyc, reqs[s].user_id)
       IN  IF r.code # 200
           THEN KycDone(s, reqs[s].user_id, r.code, TRUE, "Sumsub error", NoBody)
           ELSE /\ reqs' = [reqs EXCEPT ![s] =
                              [@ EXCEPT !.pc = "commit", !.row = existing.id,
                                        !.applicant_id = r.applicant_id,
                                        !.out_status = r.out_status]]
                /\ UNCHANGED <<resp, lastKyc>>
    /\ UNCHANGED <<settings, serial, userCap, dbVars, lastBrok, sig>>

\* lines 185-194: the commit (IntegrityError when a unique column collides)
\* and the response read back from the table
KycCommit(s) ==
    /\ reqs[s].op = "kyc_applicant" /\ reqs[s].pc = "commit"
    /\ LET r == reqs[s]
           written == KycUpsert(kyc, r.row, r.user_id, r.applicant_id, r.out_status)
           saved == KycByUser(written, r.user_id)
       IN  IF KycUnique(written)
           THEN /\ kyc' = written
                /\ KycDone(s, r.user_id, 200, TRUE, Null,
                           KycBody(saved.sumsub_applicant_id, saved.status,
                                   saved.review_result))
           ELSE /\ kyc' = kyc
                /\ KycDone(s, r.user_id, 500, TRUE, "IntegrityError", NoBody)
    /\ UNCHANGED <<settings, serial, userCap, users, accounts, transactions, brokerage, lastBrok, sig>>

----------------------------------------------------------------------------
(* app/routers/kyc.py: POST /kyc/webhook/sumsub *)

\* lines 217-230: the status an event sets, whatever the row's status was
WebhookNewStatus(event_type, review_answer) ==
    IF event_type = "applicantReviewed"
    THEN IF review_answer = "GREEN" THEN "approved"
         ELSE IF review_answer = "RED" THEN "rejected"
         ELSE "pending"
    ELSE "pending"

\* line 221: f"{review_status}:{review_answer}" (a missing key reads as None)
ReviewResultText(b) ==
    PyStr(DictGet(b.reviewStatus, Null)) \o ":" \o PyStr(DictGet(b.reviewAnswer, Null))

\* line 208-210: (data.get("data", {}) or {}).get("applicantId")
WebhookApplicantId(b) ==
    IF b.data = "object" THEN DictGet(b.applicantId, Null) ELSE Null

\* the handler: its response code and body, and the table it leaves
sumsub_webhook_result(b, header_signature) ==
    LET applicant_id == WebhookApplicantId(b)
        row == KycByApplicant(kyc, applicant_id)
        review_answer == DictGet(b.reviewAnswer, Null)
    IN  IF verify_sumsub_webhook_signature(RawBody(b), header_signature) = "TypeError"
        THEN [code |-> 500, detail |-> "TypeError", kyc |-> kyc]
        ELSE IF ~Truthy(applicant_id)
        THEN [code |-> 200, detail |-> "ignored: no applicantId", kyc |-> kyc]
        ELSE IF b.type = "applicantReviewed" /\ b.reviewResult = Null
        THEN [code |-> 500, detail |-> "AttributeError", kyc |-> kyc]
        ELSE IF row = NoRow
        THEN [code |-> 200, detail |-> "ignored: KYC record not found", kyc |-> kyc]
        ELSE [code |-> 200, detail |-> "ok",
              kyc |-> [kyc EXCEPT ![row.id] =
                        [@ EXCEPT !.status = WebhookNewStatus(b.type, review_answer),
                                  !.review_result =
                                      IF b.type = "applicantReviewed"
                                      THEN ReviewResultText(b) ELSE @]]]

sumsub_webhook(b, header_signature) ==
    /\ LET r == sumsub_webhook_result(b, header_signature)
       IN  /\ kyc' = r.kyc
           /\ Respond("webhook", 0, r.code, r.detail, NoBody)
    /\ UNCHANGED <<settings, serial, userCap, users, accounts, transactions, brokerage, reqs,
                   lastKyc, lastBrok, sig>>


----------------------------------------------------------------------------
(* app/integrations/drivewealth_client.py and app/routers/brokerage.py *)

\* uuid.uuid4().hex[:20]: a value the caller cannot predict
UuidHex == {"0a", "1b"}

\* create_customer / create_account in simulation mode
FakeCustomerId(hex) == "DW-CUST-" \o hex
FakeAccountId(hex) == "DW-ACC-" \o hex

\* a mutation of BrokerageRow: the row stored as already active
BrokerageRowActive(id, user_id, customer_id, account_id) ==
    [id |-> id, user_id |-> user_id, broker |-> "drivewealth",
     external_customer_id |-> customer_id, external_account_id |-> account_id,
     status |-> "active"]

BrokerageRow(id, user_id, customer_id, account_id) ==
    [id |-> id, user_id |-> user_id, broker |-> "drivewealth",
     external_customer_id |-> customer_id, external_account_id |-> account_id,
     status |-> "created"]

\* a mutation of LatestBrokerage: the look-up finds nothing
LatestBrokerageNone(table, user_id) == NoRow

\* lines 74-82: the drivewealth row of the user with the greatest id
LatestBrokerage(table, user_id) ==
    LET hits == {i \in 1..Len(table) :
                    table[i].user_id = user_id /\ table[i].broker = "drivewealth"}
    IN  IF hits = {} THEN NoRow
        ELSE table[CHOOSE i \in hits : \A j \in hits : j <= i]

BrokBody(row) ==
    [external_customer_id |-> row.external_customer_id,
     external_account_id |-> row.external_account_id, status |-> row.status]

BrokDone(s, user_id, code, made, detail, body) ==
    /\ Respond("brokerage_onboard", user_id, code, detail, body)
    /\ lastBrok' = IF serial
                   THEN [lastBrok EXCEPT ![user_id] =
                           [code |-> code, made |-> made,
                            id |-> IF code = 201 THEN body ELSE Null]]
                   ELSE lastBrok
    /\ Release(s)

\* lines 69-119: the look-ups, the existing record returned, the two provider calls
BrokBegin(s, user_id, hex1, hex2) ==
    /\ Free(s)
    /\ LET existing == LatestBrokerage(brokerage, user_id)
       IN  IF ~UserExists(user_id)
           THEN BrokDone(s, user_id, 404, FALSE, "User not found", NoBody)
           ELSE IF existing # NoRow
           THEN BrokDone(s, user_id, 201, FALSE, Null, BrokBody(existing))
           ELSE IF ~settings.drivewealth_use_mock
           THEN BrokDone(s, user_id, 501, TRUE, "NotImplementedError", NoBody)
           ELSE /\ reqs' = [reqs EXCEPT ![s] =
                              [Idle EXCEPT !.op = "brokerage_onboard", !.pc = "commit",
                                           !.user_id = user_id,
                                           !.customer_id = FakeCustomerId(hex1),
                                           !.dw_account_id = FakeAccountId(hex2)]]
                /\ UNCHANGED <<resp, lastBrok>>
    /\ UNCHANGED <<settings, serial, userCap, dbVars, lastKyc, sig>>

\* lines 121-136: the row written and returned
BrokCommit(s) ==
    /\ reqs[s].op = "brokerage_onboard" /\ reqs[s].pc = "commit"
    /\ LET row == BrokerageRow(Len(brokerage) + 1, reqs[s].user_id,
                               reqs[s].customer_id, reqs[s].dw_account_id)
       IN  /\ brokerage' = Append(brokerage, row)
           /\ BrokDone(s, reqs[s].user_id, 201, TRUE, Null, BrokBody(row))
    /\ UNCHANGED <<settings, serial, userCap, users, accounts, transactions, kyc, lastKyc, sig>>

----------------------------------------------------------------------------
(* app/routers/mvp.py: POST /mvp/test-flow *)

\* f"mvp+{uuid.uuid4().hex[:8]}@example.com"
MvpEmails == {"mvp+0a@example.com", "mvp+1b@example.com"}

TfBody(r, brok) ==
    [kyc |-> [applicant_id |-> r.applicant_id, status |-> r.kyc_status, error |-> r.kyc_error],
     payments_error |-> r.payments_error,
     brokerage |-> brok]

\* lines 93-126: the user and the account, then the KYC look-up and the client
TfBegin(s, email) ==
    /\ Free(s)
    /\ LET user_id == Len(users) + 1
           written == Append(users, [id |-> user_id, email |-> email])
           loc == [Idle EXCEPT !.op = "test_flow", !.user_id = user_id,
                               !.account_id = Len(accounts) + 1,
                               !.kyc_status = "skipped"]
       IN  IF ~UsersUnique(written)
           THEN /\ Respond("test_flow", 0, 500, "IntegrityError", NoBody)
                /\ UNCHANGED <<users, accounts, reqs>>
           ELSE /\ Len(users) < userCap
                /\ users' = written
                /\ accounts' = Append(accounts,
                      [id |-> Len(accounts) + 1, user_id |-> user_id, currency |-> "USD"])
                /\ UNCHANGED resp
                /\ IF HasStoredApplicant(KycByUser(kyc, user_id))
                   THEN reqs' = [reqs EXCEPT ![s] =
                           [loc EXCEPT !.pc = "payments",
                                       !.applicant_id = KycByUser(kyc, user_id).sumsub_applicant_id,
                                       !.kyc_status = PyOr(KycByUser(kyc, user_id).status,
                                                           "already_exists")]]
                   ELSE IF ~SumsubConfigured
                   THEN reqs' = [reqs EXCEPT ![s] =
                           [loc EXCEPT !.pc = "payments", !.kyc_status = "error",
                                       !.kyc_error = "Config/flow error"]]
                   ELSE reqs' = [reqs EXCEPT ![s] = [loc EXCEPT !.pc = "call"]]
    /\ UNCHANGED <<settings, serial, userCap, transactions, kyc, brokerage, lastKyc, lastBrok, sig>>

\* lines 140-163: which except clause of the step catches a provider failure
TfKycError(o) ==
    IF o.kind \in {"ok", "409"} THEN "Config/flow error" ELSE "Sumsub error"

\* lines 140-179: the provider's answer, then the query of the upsert
TfKycReturn(s, o) ==
    /\ reqs[s].op = "test_flow" /\ reqs[s].pc = "call"
    /\ LET r == CreateResult(o)
           existing == KycByUser(kyc, reqs[s].user_id)
       IN  IF r.code # 200
           THEN reqs' = [reqs EXCEPT ![s] =
                   [@ EXCEPT !.pc = "payments", !.kyc_status = "error",
                             !.kyc_error = TfKycError(o)]]
           ELSE reqs' = [reqs EXCEPT ![s] =
                   [@ EXCEPT !.pc = "commit", !.row = existing.id,
                             !.applicant_id = r.applicant_id,
                             !.out_status = r.out_status]]
    /\ UNCHANGED <<settings, serial, userCap, dbVars, resp, lastKyc, lastBrok, sig>>

\* lines 181-191: the commit; an IntegrityError is caught as a step error.
\* The handler does not roll back: the failed flush leaves the session
\* inactive with every loaded object expired, so each later use of the
\* session raises PendingRollbackError (db_failed).
TfKycCommit(s) ==
    /\ reqs[s].op = "test_flow" /\ reqs[s].pc = "commit"
    /\ LET r == reqs[s]
           written == KycUpsert(kyc, r.row, r.user_id, r.applicant_id, r.out_status)
       IN  IF KycUnique(written)
           THEN /\ kyc' = written
                /\ reqs' = [reqs EXCEPT ![s] =
                      [@ EXCEPT !.pc = "payments", !.kyc_status = r.out_status]]
           ELSE /\ kyc' = kyc
                /\ reqs' = [reqs EXCEPT ![s] =
                      [@ EXCEPT !.pc = "payments", !.applicant_id = Null,
                                !.kyc_status = "error", !.kyc_error = "Sumsub error",
                                !.db_failed = TRUE]]
    /\ UNCHANGED <<settings, serial, userCap, users, accounts, transactions, brokerage, resp,
                   lastKyc, lastBrok, sig>>

\* what the payments provider may answer to get_rate
RateOutcomes == {"ok", "error"}

(* Decimal values: an amount is a whole number of hundredths (the scale of  *)
(* transactions.amount, Numeric(18, 2)), a rate a whole number of           *)
(* ten-thousandths; a product of the two is in millionths.                  *)

\* pay_source_amount = Decimal("100")
FlowSourceAmount == 100 * 100

\* a mutation of AddTransaction: the row written over the last one
AddTransactionOverwrite(table, user_id, account_id, amount) ==
    IF table = <<>>
    THEN <<[id |-> 1, user_id |-> user_id, account_id |-> account_id,
            type |-> "fx_sandbox", amount |-> amount]>>
    ELSE [table EXCEPT ![Len(table)] =
            [id |-> Len(table), user_id |-> user_id, account_id |-> account_id,
             type |-> "fx_sandbox", amount |-> amount]]

\* db.add(models.Transaction(...)); db.commit()
AddTransaction(table, user_id, account_id, amount) ==
    Append(table, [id |-> Len(table) + 1, user_id |-> user_id,
                   account_id |-> account_id, type |-> "fx_sandbox",
                   amount |-> amount])

\* lines 202-228: the payments step (the sandbox quote of line 208 calls a
\* method WiseClient does not have; line 213 swallows the AttributeError)
TfPaymentsError(rate) ==
    IF ~Truthy(settings.wise_api_key) THEN "Config error"
    ELSE IF rate # "ok" THEN "Wise error"
    ELSE Null

\* lines 202-284 on an inactive session: reading user.id (lines 217, 239)
\* raises inside the payments and brokerage steps, which record it, and
\* FlowUser.from_orm(user) (line 267) raises outside every try
TfFinishInactive(s) ==
    /\ UNCHANGED <<transactions, brokerage>>
    /\ Respond("test_flow", reqs[s].user_id, 500, "PendingRollbackError", NoBody)

\* lines 202-284: the payments step, the brokerage step and the response
TfFinish(s, rate, hex1, hex2) ==
    /\ reqs[s].op = "test_flow" /\ reqs[s].pc = "payments"
    /\ LET r == [reqs[s] EXCEPT !.payments_error = TfPaymentsError(rate)]
           row == BrokerageRow(Len(brokerage) + 1, r.user_id,
                               FakeCustomerId(hex1), FakeAccountId(hex2))
       IN  IF r.db_failed THEN TfFinishInactive(s) ELSE
           /\ transactions' =
                 IF r.payments_error = Null
                 THEN AddTransaction(transactions, r.user_id, r.account_id,
                                     FlowSourceAmount)
                 ELSE transactions
           /\ IF settings.drivewealth_use_mock
              THEN /\ brokerage' = Append(brokerage, row)
                   /\ Respond("test_flow", r.user_id, 200, Null,
                              TfBody(r, [error |-> Null, row |-> BrokBody(row)]))
              ELSE /\ brokerage' = brokerage
                   /\ Respond("test_flow", r.user_id, 200, Null,
                              TfBody(r, [error |-> "Config error", row |-> NoBody]))
    /\ Release(s)
    /\ UNCHANGED <<settings, serial, userCap, users, accounts, kyc, lastKyc, lastBrok, sig>>

----------------------------------------------------------------------------
(* app/routers/kyc.py: GET /kyc/status *)

\* a mutation of StatusBody: a row without review is reported as not started
StatusBodyUnreviewed(row) ==
    IF row = NoRow \/ row.review_result = Null
    THEN KycBody(Null, "not_started", Null)
    ELSE KycBody(row.sumsub_applicant_id, row.status, row.review_result)

\* lines 77-91: the response for the row found, or for none
StatusBody(row) ==
    IF row = NoRow
    THEN KycBody(Null, "not_started", Null)
    ELSE KycBody(row.sumsub_applicant_id, row.status, row.review_result)

\* get_kyc_status
get_kyc_status(user_id) ==
    /\ serial => AllIdle
    /\ IF ~UserExists(user_id)
       THEN Respond("kyc_status", user_id, 404, "User not found", NoBody)
       ELSE Respond("kyc_status", user_id, 200, Null, StatusBody(KycByUser(kyc, user_id)))
    /\ UNCHANGED <<settings, serial, userCap, dbVars, reqs, histVars, sig>>

----------------------------------------------------------------------------
(* app/routers/payments.py *)

\* amounts a caller may send, in hundredths: 0.50, 1.50, 100.00
SourceAmounts == {50, 150, 100 * 100}

\* GET /payments/fx-rate without the amount parameter
NoAmount == 0

\* what get_rate may return, in ten-thousandths (0.2500, 0.7500, 5.1234),
\* or raise
FxOutcomes ==
    {[kind |-> "ok", rate |-> r] : r \in {2500, 7500, 51234}}
    \cup {[kind |-> "error", rate |-> 0]}

\* a mutation of Quantize: ties rounded up
QuantizeHalfUp(millionths) == (millionths + 5000) \div 10000

\* Decimal.quantize(Decimal("0.01")) of a non-negative product, under the
\* default context (ROUND_HALF_EVEN): a tie goes to the even hundredth
Quantize(millionths) ==
    LET q == millionths \div 10000
        r == millionths % 10000
    IN  IF r > 5000 \/ (r = 5000 /\ q % 2 = 1) THEN q + 1 ELSE q

\* WiseClient.__init__ raises RuntimeError without an API key
WiseConfigured == Truthy(settings.wise_api_key)

FxBody(rate, source_amount, target_amount) ==
    [rate |-> rate, source_amount |-> source_amount, target_amount |-> target_amount]

\* get_fx_rate (NoAmount: the amount parameter left out)
get_fx_rate(amount, o) ==
    /\ serial => AllIdle
    /\ IF ~WiseConfigured
       THEN Respond("fx_rate", 0, 500, "RuntimeError", NoBody)
       ELSE IF o.kind # "ok"
       THEN Respond("fx_rate", 0, 502, "Wise rate error", NoBody)
       ELSE Respond("fx_rate", 0, 200, Null,
                    FxBody(o.rate, amount,
                           IF amount = NoAmount THEN NoAmount
                           ELSE Quantize(amount * o.rate)))
    /\ UNCHANGED <<settings, serial, userCap, dbVars, reqs, histVars, sig>>

\* a mutation of AccountOf: the account found by its id alone
AccountOfAnyOwner(account_id, user_id) ==
    First(accounts, {i \in 1..Len(accounts) : accounts[i].id = account_id})

\* db.query(models.Account).filter(id == account_id, user_id == user_id).first()
AccountOf(account_id, user_id) ==
    First(accounts, {i \in 1..Len(accounts) :
                        accounts[i].id = account_id /\ accounts[i].user_id = user_id})

TransferDone(s, user_id, code, detail, body) ==
    /\ Respond("sandbox_transfer", user_id, code, detail, body)
    /\ Release(s)

\* lines 98-118: the look-ups, the client, and the rate requested
TransferBegin(s, user_id, account_id, amount) ==
    /\ Free(s)
    /\ Len(transactions) < MaxTx
    /\ IF ~UserExists(user_id)
       THEN TransferDone(s, user_id, 404, "User not found", NoBody)
       ELSE IF AccountOf(account_id, user_id) = NoRow
       THEN TransferDone(s, user_id, 404, "Account not found for user", NoBody)
       ELSE IF ~WiseConfigured
       THEN TransferDone(s, user_id, 500, "RuntimeError", NoBody)
       ELSE /\ reqs' = [reqs EXCEPT ![s] =
                          [Idle EXCEPT !.op = "sandbox_transfer", !.pc = "rate",
                                       !.user_id = user_id, !.account_id = account_id,
                                       !.amount = amount]]
            /\ UNCHANGED resp
    /\ UNCHANGED <<settings, serial, userCap, dbVars, histVars, sig>>

\* lines 118-155: the rate's answer; the quote (WiseClient has no
\* create_sandbox_quote: the AttributeError is caught at line 129 and becomes
\* the snapshot); the transaction committed; the response
TransferRateReturn(s, o) ==
    /\ reqs[s].op = "sandbox_transfer" /\ reqs[s].pc = "rate"
    /\ LET r == reqs[s]
       IN  IF o.kind # "ok"
           THEN /\ TransferDone(s, r.user_id, 502, "Wise rate error", NoBody)
                /\ UNCHANGED transactions
           ELSE /\ transactions' = AddTransaction(transactions, r.user_id,
                                                  r.account_id, r.amount)
                /\ TransferDone(s, r.user_id, 200, Null,
                      [account_id |-> r.account_id, source_amount |-> r.amount,
                       estimated_target_amount |-> Quantize(r.amount * o.rate),
                       fx_rate |-> o.rate,
                       wise_quote_snapshot |-> "error: AttributeError"])
    /\ UNCHANGED <<settings, serial, userCap, users, accounts, kyc, brokerage,
                   histVars, sig>>

----------------------------------------------------------------------------
(* Specifications *)

NoSig == [raw_body |-> Null, header |-> NoHeader, result |-> Null]

InitWith(deployments, one_at_a_time, cap) ==
    /\ settings \in deployments
    /\ serial = one_at_a_time
    /\ userCap = cap
    /\ users = <<>>
    /\ accounts = <<>>
    /\ transactions = <<>>
    /\ kyc = <<>>
    /\ brokerage = <<>>
    /\ reqs = [s \in Slots |-> Idle]
    /\ resp = [op |-> "none", user_id |-> 0, code |-> 0, detail |-> Null,
               body |-> NoBody]
    /\ lastKyc = [u \in UserIds |-> NoCall]
    /\ lastBrok = [u \in UserIds |-> NoCall]
    /\ sig = NoSig

DevCreate == \E email \in Emails : create_dev_user(email)
KycApplicantBegin == \E s \in Slots, u \in UserIds : KycBegin(s, u)
KycApplicantReturn == \E s \in Slots, o \in SumsubOutcomes : KycProviderReturn(s, o)
KycApplicantCommit == \E s \in Slots : KycCommit(s)
Webhook(bodies) ==
    \E b \in bodies : \E h \in WebhookHeaders(RawBody(b)) : sumsub_webhook(b, h)
OnboardBegin(hexes) ==
    \E s \in Slots, u \in UserIds : \E h1, h2 \in hexes : BrokBegin(s, u, h1, h2)
OnboardCommit == \E s \in Slots : BrokCommit(s)
TestFlowBegin == \E s \in Slots, email \in MvpEmails : TfBegin(s, email)
TestFlowKycReturn == \E s \in Slots, o \in SumsubOutcomes : TfKycReturn(s, o)
TestFlowKycCommit == \E s \in Slots : TfKycCommit(s)
TestFlowFinish(hexes) ==
    \E s \in Slots, rate \in RateOutcomes :
        \E h1, h2 \in hexes : TfFinish(s, rate, h1, h2)

\* the inputs of the specification in which requests overlap: one uuid, and
\* the webhooks that approve an applicant or report another event
OneHex == {"0a"}
OverlapBodies ==
    {WebhookBody(t, "object", a, "object", "completed", "GREEN") :
        t \in {"applicantReviewed", "applicantPending"}, a \in ApplicantIds}

\* every endpoint, requests overlapping
Next ==
    \/ DevCreate
    \/ KycApplicantBegin
    \/ KycApplicantReturn
    \/ KycApplicantCommit
    \/ Webhook(OverlapBodies)
    \/ OnboardBegin(OneHex)
    \/ OnboardCommit
    \/ TestFlowBegin
    \/ TestFlowKycReturn
    \/ TestFlowKycCommit
    \/ TestFlowFinish(OneHex)

Init == InitWith(SettingsChoices, FALSE, MaxUsers)
Spec == Init /\ [][Next]_vars

\* the KYC endpoints, one request at a time
KycNext ==
    \/ DevCreate
    \/ KycApplicantBegin
    \/ KycApplicantReturn
    \/ KycApplicantCommit
    \/ Webhook(WebhookBodies)

SeqInit == InitWith(SettingsChoices, TRUE, MaxUsers)
SeqSpec == SeqInit /\ [][KycNext]_vars

\* the KYC endpoints on a directory of several users, one request at a time
KycStatus == \E u \in UserIds \cup {userCap + 1} : get_kyc_status(u)

DirectoryKycNext ==
    \/ DevCreate
    \/ KycApplicantBegin
    \/ KycApplicantReturn
    \/ KycApplicantCommit
    \/ Webhook(OverlapBodies)
    \/ KycStatus

DirectoryInit == InitWith(SettingsChoices, TRUE, MaxDirectory)
DirectoryKycSpec == DirectoryInit /\ [][DirectoryKycNext]_vars

\* the user directory and the test flow (FlowSpec), the test flow and the
\* payments endpoints (PaySpec), one request at a time
FxRate == \E amount \in SourceAmounts \cup {NoAmount}, o \in FxOutcomes : get_fx_rate(amount, o)
TransferStart ==
    \E s \in Slots, u \in UserIds \cup {userCap + 1}, a \in UserIds, amount \in SourceAmounts :
        TransferBegin(s, u, a, amount)
TransferReturn == \E s \in Slots, o \in FxOutcomes : TransferRateReturn(s, o)

FlowNext ==
    \/ DevCreate
    \/ TestFlowBegin
    \/ TestFlowKycReturn
    \/ TestFlowKycCommit
    \/ TestFlowFinish(OneHex)

FlowSpec == DirectoryInit /\ [][FlowNext]_vars

PayNext ==
    \/ TestFlowBegin
    \/ TestFlowKycReturn
    \/ TestFlowKycCommit
    \/ TestFlowFinish(OneHex)
    \/ FxRate
    \/ TransferStart
    \/ TransferReturn

PaySpec == SeqInit /\ [][PayNext]_vars

\* the test flow and the transfer endpoint on several users and accounts, one
\* request at a time
LedgerNext ==
    \/ TestFlowBegin
    \/ TestFlowKycReturn
    \/ TestFlowKycCommit
    \/ TestFlowFinish(OneHex)
    \/ TransferStart
    \/ TransferReturn

LedgerSpec == DirectoryInit /\ [][LedgerNext]_vars

\* the brokerage endpoints, one request at a time
BrokNext ==
    \/ DevCreate
    \/ OnboardBegin(UuidHex)
    \/ OnboardCommit
    \/ TestFlowBegin
    \/ TestFlowKycReturn
    \/ TestFlowKycCommit
    \/ TestFlowFinish(UuidHex)

BrokSpec == SeqInit /\ [][BrokNext]_vars

\* the webhook verifier alone, on every secret configuration
SigBodies ==
    {WebhookBody("applicantReviewed", "object", "a1", "object", "completed", ra) :
        ra \in {"GREEN", "RED"}}

SigVerify ==
    /\ \E b, signed \in SigBodies, k \in SigningKeys :
         \E h \in HeadersFor(RawBody(signed), k) :
            sig' = [raw_body |-> RawBody(b), header |-> h,
                    result |-> verify_sumsub_webhook_signature(RawBody(b), h)]
    /\ UNCHANGED <<settings, serial, userCap, dbVars, reqs, resp, histVars>>

SigInit == InitWith(SecretChoices, TRUE, MaxUsers)
SigSpec == SigInit /\ [][SigVerify]_vars

----------------------------------------------------------------------------
(* Properties: POST /kyc/applicant *)

\* C1 as stated: a POST /kyc/applicant for an existing user that follows a
\* completed one for the same user, whatever the first returned, sends no
\* request to the provider if the first sent one, and returns the applicant id
\* the first returned.
C1_AtMostOneOutboundCall ==
    [][\A s \in Slots, u \in UserIds :
          (KycBegin(s, u) /\ UserExists(u) /\ lastKyc[u].code \notin {0, 404}) =>
              /\ lastKyc[u].made => reqs'[s].pc # "call"
              /\ lastKyc[u].code = 200 =>
                    /\ reqs'[s].pc = "idle"
                    /\ resp'.code = 200
                    /\ resp'.body.applicant_id = lastKyc[u].id]_vars

\* C1 amended: when requests are handled one at a time and the first
\* POST /kyc/applicant for a user returned 200 with an applicant id, the next
\* one for that user sends no request to the provider, leaves the table alone
\* and returns the same applicant id.
C1_SecondCallAfterSuccess ==
    [][\A s \in Slots, u \in UserIds :
          (KycBegin(s, u) /\ lastKyc[u].code = 200) =>
              /\ reqs'[s].pc = "idle"
              /\ kyc' = kyc
              /\ resp'.op = "kyc_applicant" /\ resp'.code = 200
              /\ resp'.body.applicant_id = lastKyc[u].id
              /\ lastKyc'[u].made = FALSE]_vars

\* a second call has returned the stored id without calling the provider
C1_Witness ==
    \E u \in UserIds :
        /\ lastKyc[u].code = 200 /\ ~lastKyc[u].made
        /\ resp.op = "kyc_applicant" /\ resp.code = 200
        /\ KycByUser(kyc, u) # NoRow
        /\ resp.body.applicant_id = KycByUser(kyc, u).sumsub_applicant_id

\* C2: a POST /kyc/applicant for a user whose KYC row holds an applicant id
\* sends no request to the provider, leaves every KYC row as it was, and
\* answers 200 with exactly the stored applicant id, status and review result.
C2_StoredApplicantReturned ==
    [][\A s \in Slots, u \in UserIds :
          LET stored == KycByUser(kyc, u)
          IN  (/\ KycBegin(s, u)
               /\ UserExists(u)
               /\ stored # NoRow
               /\ stored.sumsub_applicant_id \notin {Null, ""}) =>
                  /\ reqs'[s].pc = "idle"
                  /\ kyc' = kyc
                  /\ resp'.op = "kyc_applicant" /\ resp'.code = 200
                  /\ resp'.body = [applicant_id |-> stored.sumsub_applicant_id,
                                   status |-> stored.status,
                                   review_result |-> stored.review_result]]_vars

\* the idempotent return has answered with a status that a webhook had set
C2_Witness ==
    /\ resp.op = "kyc_applicant" /\ resp.code = 200
    /\ resp.body.status = "rejected"
    /\ resp.body.review_result = "completed:RED"
    /\ KycByUser(kyc, resp.user_id) # NoRow
    /\ KycByUser(kyc, resp.user_id).status = "rejected"

\* C3: however the pieces of /kyc/applicant, /mvp/test-flow and the webhook
\* interleave, no user has two KYC rows, and every row's external_user_id is
\* "user-" followed by its user_id.
C3_OneRowPerUser ==
    \A i, j \in 1..Len(kyc) :
        /\ kyc[i].user_id = kyc[j].user_id => i = j
        /\ kyc[i].external_user_id = "user-" \o ToString(kyc[i].user_id)

\* two overlapping requests have both tried to insert the row of one user,
\* and the second commit was refused
C3_Witness ==
    /\ ~serial
    /\ resp.op = "kyc_applicant" /\ resp.code = 500 /\ resp.detail = "IntegrityError"
    /\ Len(kyc) = 1

\* the order of the statuses the lifecycle is described with
StatusRank(status) ==
    IF status = "not_started" THEN 0
    ELSE IF status = "created" THEN 1
    ELSE IF status \in {"already_exists", "pending"} THEN 2
    ELSE 3

\* C4 as stated: over applicant-creation calls and webhook events the status
\* of a KYC row only moves forward along
\* not_started -> created -> already_exists | pending -> approved | rejected.
C4_StatusOnlyForward ==
    [][\A i \in 1..Len(kyc) :
          /\ i <= Len(kyc')
          /\ StatusRank(kyc'[i].status) >= StatusRank(kyc[i].status)]_vars

\* C4 amended: with requests handled one at a time, a row is never removed
\* and a row that is pending, approved or rejected never returns to created
\* or already_exists; a webhook, though, sets the status from the event
\* alone, so approved and rejected rows do return to pending or swap.
C4_ReviewedNeverRecreated ==
    [][\A i \in 1..Len(kyc) :
          /\ i <= Len(kyc')
          /\ kyc[i].status \in {"pending", "approved", "rejected"} =>
                kyc'[i].status \in {"pending", "approved", "rejected"}]_vars

\* an approved row has been set back to pending by an event that is no review
C4_Witness ==
    \E i \in 1..Len(kyc) :
        /\ kyc[i].status = "pending"
        /\ kyc[i].review_result = "completed:GREEN"
        /\ resp.op = "webhook" /\ resp.code = 200

----------------------------------------------------------------------------
(* Properties: POST /kyc/webhook/sumsub *)

\* the X-Signature values of WebhookHeaders that are ASCII text
AsciiHeaders(raw) ==
    {h \in WebhookHeaders(raw) : \A i \in 1..Len(h) : h[i] # NonAscii}

\* the status the specification gives for an event
SpecifiedStatus(b) ==
    IF b.type # "applicantReviewed" THEN "pending"
    ELSE IF b.data = "object" /\ b.reviewResult = "object" /\ b.reviewAnswer = "GREEN"
         THEN "approved"
    ELSE IF b.data = "object" /\ b.reviewResult = "object" /\ b.reviewAnswer = "RED"
         THEN "rejected"
    ELSE "pending"

\* C5: a webhook whose applicantId matches a row sets that row's status to
\* approved for a GREEN review, rejected for a RED review, pending for a
\* review with any other or no answer, and pending for every other event
\* (stated for requests whose X-Signature is missing or ASCII).
C5_WebhookStatusMapping ==
    [][\A b \in WebhookBodies : \A h \in AsciiHeaders(RawBody(b)) :
          LET hit == KycByApplicant(kyc, WebhookApplicantId(b))
          IN  (sumsub_webhook(b, h) /\ hit # NoRow) =>
                  kyc'[hit.id].status = SpecifiedStatus(b)]_vars

\* C6: a webhook without an applicantId, or with one that matches no row,
\* leaves every row unchanged and is answered 200 "ignored" (stated for
\* requests whose X-Signature is missing or ASCII).
C6_UnmatchedWebhookIgnored ==
    [][\A b \in WebhookBodies : \A h \in AsciiHeaders(RawBody(b)) :
          (/\ sumsub_webhook(b, h)
           /\ \/ WebhookApplicantId(b) \in {Null, ""}
              \/ KycByApplicant(kyc, WebhookApplicantId(b)) = NoRow) =>
              /\ kyc' = kyc
              /\ resp'.code = 200
              /\ resp'.detail \in {"ignored: no applicantId",
                                   "ignored: KYC record not found"}]_vars

\* C7: what a webhook does (its response and the table it leaves) is the
\* same whether its X-Signature is the valid one, a wrong one, or missing.
C7_SignatureIndependent ==
    \A b \in WebhookBodies :
        \A k \in SigningKeys : \A h \in HeadersFor(RawBody(b), k) :
            sumsub_webhook_result(b, h)
                = sumsub_webhook_result(b, HexDigest(WebhookSecret, RawBody(b)))

\* C8: the webhook answers 200 to every request whose body is a JSON object,
\* a null data, applicantId or reviewResult included (stated for requests
\* whose X-Signature is missing or ASCII).
C8_WebhookAlways200 ==
    [][\A b \in WebhookBodies : \A h \in AsciiHeaders(RawBody(b)) :
          sumsub_webhook(b, h) => resp'.code = 200]_vars

----------------------------------------------------------------------------
(* Properties: the webhook signature verifier *)

Lower(c) ==
    IF c = "S" THEN "s" ELSE IF c = "H" THEN "h" ELSE IF c = "A" THEN "a" ELSE c

\* the header without an optional leading "sha256=", in any letter case
StripLeadingPrefix(h) ==
    IF Len(h) >= Len(Sha256Prefix)
       /\ [i \in 1..Len(Sha256Prefix) |-> Lower(h[i])] = Sha256Prefix
    THEN SubSeq(h, Len(Sha256Prefix) + 1, Len(h))
    ELSE h

\* C9: the verifier returns true exactly when a secret is configured, the
\* header is present, and the header, after an optional leading "sha256="
\* (in any letter case) is removed, is the hex HMAC-SHA256 of the raw body
\* under that secret; in every other case it returns false.
C9_VerifierExact ==
    sig.result # Null =>
        sig.result =
            IF /\ WebhookSecret # ""
               /\ sig.header # NoHeader
               /\ StripLeadingPrefix(sig.header) = HexDigest(WebhookSecret, sig.raw_body)
            THEN "True" ELSE "False"

----------------------------------------------------------------------------
(* Properties: POST /brokerage/onboard *)

\* C10: with requests handled one at a time, a POST /brokerage/onboard that
\* follows a successful one for the same user calls no provider, adds no
\* brokerage row, and answers 201 with the same customer id, account id and
\* status.
C10_SecondOnboardIdempotent ==
    [][\A s \in Slots, u \in UserIds : \A hex1, hex2 \in UuidHex :
          (BrokBegin(s, u, hex1, hex2) /\ lastBrok[u].code = 201) =>
              /\ reqs'[s].pc = "idle"
              /\ brokerage' = brokerage
              /\ resp'.op = "brokerage_onboard" /\ resp'.code = 201
              /\ resp'.body = lastBrok[u].id
              /\ lastBrok'[u].made = FALSE]_vars

\* a second onboarding of a dev-created user has returned the stored record
C10_Witness ==
    \E u \in UserIds :
        /\ UserExists(u) /\ users[u].email \in Emails
        /\ lastBrok[u].code = 201 /\ ~lastBrok[u].made
        /\ resp.op = "brokerage_onboard" /\ resp.code = 201
        /\ Len(brokerage) = 1
        /\ resp.body = BrokBody(brokerage[1])

C19_MissingIdIs500 ==
    [][\A s \in Slots, o \in SumsubOutcomes :
          (KycProviderReturn(s, o) /\ o.kind = "ok" /\ ~Truthy(o.id)) =>
              /\ resp'.op = "kyc_applicant" /\ resp'.code = 500
              /\ kyc' = kyc]_vars

\* C20: however concurrent POST /brokerage/onboard requests interleave, a
\* user has at most one drivewealth brokerage row (stated for the users of
\* POST /users/dev-create, whose rows only POST /brokerage/onboard writes).
C20_OneBrokerageRowPerUser ==
    \A i, j \in 1..Len(brokerage) :
        (brokerage[i].user_id = brokerage[j].user_id
         /\ users[brokerage[i].user_id].email \in Emails
         /\ brokerage[i].broker = "drivewealth"
         /\ brokerage[j].broker = "drivewealth") => i = j

\* C17: GET /kyc/status answers 404 when the user does not exist; for a user
\* without a KYC row it reports "not_started" with no applicant id and no
\* review result; otherwise it reports the stored row's applicant id, status
\* and review result.  It changes nothing that is stored.
C17_StatusReadOnly ==
    [][\A u \in UserIds \cup {userCap + 1} :
          get_kyc_status(u) =>
              /\ UNCHANGED dbVars
              /\ resp'.op = "kyc_status"
              /\ ~UserExists(u) => resp'.code = 404
              /\ (UserExists(u) /\ \A i \in 1..Len(kyc) : kyc[i].user_id # u) =>
                    /\ resp'.code = 200
                    /\ resp'.body.status = "not_started"
                    /\ resp'.body.applicant_id = Null
                    /\ resp'.body.review_result = Null
              /\ \A i \in 1..Len(kyc) :
                    (UserExists(u) /\ kyc[i].user_id = u) =>
                        /\ resp'.code = 200
                        /\ resp'.body.status = kyc[i].status
                        /\ resp'.body.applicant_id = kyc[i].sumsub_applicant_id
                        /\ resp'.body.review_result = kyc[i].review_result]_vars

\* the status of a user whose applicant a webhook approved has been read
C17_Witness ==
    /\ resp.op = "kyc_status" /\ resp.code = 200
    /\ resp.body.status = "approved"
    /\ \E i \in 1..Len(kyc) :
          /\ kyc[i].user_id = resp.user_id /\ kyc[i].status = "approved"
          /\ kyc[i].sumsub_applicant_id = resp.body.applicant_id
          /\ kyc[i].review_result = resp.body.review_result

\* C18: a POST /kyc/applicant that fails (user not found; provider status
\* 400 or above other than 409; transport error; 409 without a parseable
\* applicant id) answers 404 or 502 and leaves the KYC table as it was; a
\* 409 with a parseable id succeeds and stores that id with status
\* "already_exists".
C18_ApplicantFailuresAnd409 ==
    [][/\ \A s \in Slots, u \in UserIds :
            (KycBegin(s, u) /\ ~UserExists(u)) =>
                resp'.op = "kyc_applicant" /\ resp'.code = 404 /\ kyc' = kyc
       /\ \A s \in Slots, o \in SumsubOutcomes :
            (/\ KycProviderReturn(s, o)
             /\ \/ o.kind \in {"500", "transport"}
                \/ o.kind = "409" /\ ~Truthy(ExtractApplicantId(o.description))) =>
                resp'.op = "kyc_applicant" /\ resp'.code = 502 /\ kyc' = kyc
       /\ \A s \in Slots :
            (KycCommit(s) /\ reqs[s].out_status = "already_exists") =>
                /\ resp'.op = "kyc_applicant" /\ resp'.code = 200
                /\ \E i \in 1..Len(kyc') :
                      /\ kyc'[i].user_id = reqs[s].user_id
                      /\ kyc'[i].sumsub_applicant_id = reqs[s].applicant_id
                      /\ kyc'[i].status = "already_exists"]_vars

\* C12: POST /users/dev-create with an email that a user row already holds
\* answers 400 "Email already registered" and adds no row; in every
\* reachable state no two user rows share an email.
C12_EmailsUnique ==
    /\ [](\A i, j \in 1..Len(users) : users[i].email = users[j].email => i = j)
    /\ [][\A email \in Emails :
            (create_dev_user(email) /\ \E i \in 1..Len(users) : users[i].email = email) =>
                /\ resp'.op = "dev_create" /\ resp'.code = 400
                /\ resp'.detail = "Email already registered"
                /\ users' = users]_vars

\* a dev-create of a stored email has been refused, two users being stored
C12_Witness ==
    /\ resp.op = "dev_create" /\ resp.code = 400
    /\ Len(users) = 2
    /\ \E i \in 1..Len(users) : users[i].email \in Emails

\* C13: once POST /mvp/test-flow has created its user and account, the
\* payments and brokerage steps are attempted whatever failed before, the
\* endpoint returns a response (it never raises), a failed step carries an
\* error in its section and a step that succeeded carries none even when an
\* earlier step failed.
C13_FlowAlwaysResponds ==
    [][\A s \in Slots, rate \in RateOutcomes : \A hex1, hex2 \in UuidHex :
          TfFinish(s, rate, hex1, hex2) =>
              /\ resp'.op = "test_flow" /\ resp'.code = 200
              /\ resp'.body.kyc.error = reqs[s].kyc_error
              /\ (resp'.body.payments_error = Null)
                    <=> (Truthy(settings.wise_api_key) /\ rate = "ok")
              /\ (resp'.body.payments_error = Null)
                    <=> (Len(transactions') = Len(transactions) + 1)
              /\ (resp'.body.brokerage.error = Null)
                    <=> settings.drivewealth_use_mock
              /\ (resp'.body.brokerage.error = Null)
                    <=> (Len(brokerage') = Len(brokerage) + 1)]_vars

\* C14: in a POST /payments/transfer/sandbox for an existing user and an
\* account the user owns, a failed rate fetch is answered 502 and adds no
\* transaction; after a successful rate fetch the failure of the quote step
\* is not fatal: the call answers 200, its quote snapshot is an error marker,
\* and exactly one transaction of type "fx_sandbox" holding the source
\* amount is added.
C14_TransferOutcomes ==
    [][\A s \in Slots, o \in FxOutcomes :
          TransferRateReturn(s, o) =>
              /\ resp'.op = "sandbox_transfer"
              /\ o.kind # "ok" =>
                    resp'.code = 502 /\ transactions' = transactions
              /\ o.kind = "ok" =>
                    /\ resp'.code = 200
                    /\ resp'.body.wise_quote_snapshot = "error: AttributeError"
                    /\ Len(transactions') = Len(transactions) + 1
                    /\ SubSeq(transactions', 1, Len(transactions)) = transactions
                    /\ transactions'[Len(transactions')].type = "fx_sandbox"
                    /\ transactions'[Len(transactions')].amount = reqs[s].amount
                    /\ transactions'[Len(transactions')].user_id = reqs[s].user_id
                    /\ transactions'[Len(transactions')].account_id = reqs[s].account_id]_vars

\* a transfer has been answered 200 and its transaction is the last row
C14_Witness ==
    /\ resp.op = "sandbox_transfer" /\ resp.code = 200
    /\ Len(transactions) >= 2
    /\ transactions[Len(transactions)].amount = resp.body.source_amount
    /\ transactions[Len(transactions)].user_id = resp.user_id
    /\ transactions[Len(transactions)].type = "fx_sandbox"

\* the product of an amount (hundredths) and a rate (ten-thousandths), in
\* millionths, and its distance from a target amount (hundredths)
Millionths(amount, rate) == amount * rate
Distance(target, millionths) ==
    IF target * 10000 >= millionths THEN target * 10000 - millionths
    ELSE millionths - target * 10000

\* C15 as stated: the target amount of GET /payments/fx-rate and of POST
\* /payments/transfer/sandbox is source_amount x rate rounded to two decimal
\* places, ties rounded half-up.
C15_TargetHalfUp ==
    [][/\ \A amount \in SourceAmounts, o \in FxOutcomes :
            (get_fx_rate(amount, o) /\ resp'.code = 200) =>
                /\ 2 * Distance(resp'.body.target_amount, Millionths(amount, o.rate)) <= 10000
                /\ resp'.body.target_amount * 10000 + 5000 > Millionths(amount, o.rate)
       /\ \A s \in Slots, o \in FxOutcomes :
            (TransferRateReturn(s, o) /\ resp'.code = 200) =>
                /\ 2 * Distance(resp'.body.estimated_target_amount,
                                Millionths(reqs[s].amount, o.rate)) <= 10000
                /\ resp'.body.estimated_target_amount * 10000 + 5000
                      > Millionths(reqs[s].amount, o.rate)]_vars

\* C15, amended: the target amount is source_amount x rate rounded to two
\* decimal places, a tie going to the even hundredth.
C15_TargetHalfEven ==
    [][/\ \A amount \in SourceAmounts, o \in FxOutcomes :
            (get_fx_rate(amount, o) /\ resp'.code = 200) =>
                /\ resp'.body.rate = o.rate /\ resp'.body.source_amount = amount
                /\ 2 * Distance(resp'.body.target_amount, Millionths(amount, o.rate)) <= 10000
                /\ 2 * Distance(resp'.body.target_amount, Millionths(amount, o.rate)) = 10000
                      => resp'.body.target_amount % 2 = 0
       /\ \A s \in Slots, o \in FxOutcomes :
            (TransferRateReturn(s, o) /\ resp'.code = 200) =>
                /\ resp'.body.fx_rate = o.rate
                /\ resp'.body.source_amount = reqs[s].amount
                /\ 2 * Distance(resp'.body.estimated_target_amount,
                                Millionths(reqs[s].amount, o.rate)) <= 10000
                /\ 2 * Distance(resp'.body.estimated_target_amount,
                                Millionths(reqs[s].amount, o.rate)) = 10000
                      => resp'.body.estimated_target_amount % 2 = 0]_vars

\* a transfer of 0.50 at rate 0.2500 (0.125, a tie) has been answered 0.12
C15_Witness ==
    /\ resp.op = "sandbox_transfer" /\ resp.code = 200
    /\ resp.body.source_amount = 50 /\ resp.body.fx_rate = 2500
    /\ resp.body.estimated_target_amount = 12

\* C16: the transactions table is append-only: every step of every
\* operation leaves each existing transaction row as it was and removes
\* none; the table only grows.
C16_TransactionsAppendOnly ==
    [][/\ Len(transactions') >= Len(transactions)
       /\ \A i \in 1..Len(transactions) : transactions'[i] = transactions[i]]_vars

\* the test flow's transaction is still stored after a transfer of another
\* amount
C16_Witness ==
    /\ Len(transactions) = 2
    /\ transactions[1].amount = FlowSourceAmount
    /\ transactions[2].amount # transactions[1].amount
    /\ transactions[1].id = 1 /\ transactions[2].id = 2
    /\ resp.op = "sandbox_transfer"

\* C21: a POST /payments/transfer/sandbox whose provider is reachable and
\* answers successfully (its rate request has just been answered) returns
\* the provider's quote as wise_quote_snapshot, not an error marker.
C21_QuoteSnapshotFromProvider ==
    [][\A s \in Slots, o \in FxOutcomes :
          (TransferRateReturn(s, o) /\ o.kind = "ok") =>
              /\ resp'.op = "sandbox_transfer" /\ resp'.code = 200
              /\ resp'.body.wise_quote_snapshot # "error: AttributeError"]_vars

\* C22: in every reachable state the account of every transaction row
\* belongs to the row's user; a POST /payments/transfer/sandbox naming a
\* missing user, a missing account or an account of another user answers 404
\* without requesting anything from the provider and adds no transaction.
C22_TransactionAccountOwned ==
    /\ [](\A i \in 1..Len(transactions) :
            \E j \in 1..Len(accounts) :
                /\ accounts[j].id = transactions[i].account_id
                /\ accounts[j].user_id = transactions[i].user_id)
    /\ [][\A s \in Slots, u \in UserIds \cup {userCap + 1}, a \in UserIds,
             amount \in SourceAmounts :
            (/\ TransferBegin(s, u, a, amount)
             /\ \/ u > Len(users)
                \/ \A j \in 1..Len(accounts) :
                      accounts[j].id = a => accounts[j].user_id # u) =>
                /\ resp'.op = "sandbox_transfer" /\ resp'.code = 404
                /\ reqs'[s].pc = "idle"
                /\ transactions' = transactions]_vars

\* a transfer from another user's account has been refused, both users
\* having an account and a transaction being stored
C22_Witness ==
    /\ resp.op = "sandbox_transfer" /\ resp.code = 404
    /\ resp.detail = "Account not found for user"
    /\ Len(users) = 2 /\ Len(accounts) = 2
    /\ accounts[1].user_id # accounts[2].user_id
    /\ Len(transactions) >= 1

\* C23: in every reachable state every KYC row has a non-null, non-empty
\* applicant id; create_applicant never takes the branch that updates an
\* existing row; and the applicant id of a row never changes once the row
\* is created (the last two stated for the users of POST /users/dev-create,
\* whose rows only POST /kyc/applicant and the webhook write).
C23_ApplicantIdStable ==
    /\ [](\A i \in 1..Len(kyc) : Truthy(kyc[i].sumsub_applicant_id))
    /\ [][/\ \A s \in Slots :
                (KycCommit(s) /\ users[reqs[s].user_id].email \in Emails) =>
                    reqs[s].row = 0
          /\ Len(kyc') >= Len(kyc)
          /\ \A i \in 1..Len(kyc) :
                users[kyc[i].user_id].email \in Emails =>
                    kyc'[i].sumsub_applicant_id = kyc[i].sumsub_applicant_id]_vars

====
